---- MODULE Spec2Model ----
(***************************************************************************)
(* The VG5000 front-end of chips-test (examples/sokol/vg5000.c): the       *)
(* cassette encoder k7_to_tape_buffer with its impulse emitters, the       *)
(* per-frame file-loading orchestrator handle_file_loading that calls it,  *)
(* and the keyboard input; with the file loading of the Z1013 front-end    *)
(* (examples/sokol/z1013.c).                                               *)
(*                                                                         *)
(* Memory model.  The encoder writes its output strictly left to right:    *)
(* output_position starts at 0 and every store is made at                  *)
(* tape_buffer_ptr + output_position, which then advances by the value the *)
(* emitter returned.  A piece of code that stores into buffer[0..] and     *)
(* returns a count is modelled as a record [w, len, ret]: w holds the      *)
(* cells buffer[0], buffer[1], ... it stored, len is their number and ret  *)
(* is what it returned.  Then(a, b) is                                     *)
(* "pos += a(buf + pos); pos += b(buf + pos)".  Cells are kept run-length  *)
(* coded: the run <<v, n>> stands for n consecutive cells holding v.       *)
(***************************************************************************)
EXTENDS Integers, Sequences, FiniteSets, TLC

VARIABLES
    k7_data,          \* the bytes of the file handed to the encoder (fs_data)
    tape_buffer,      \* the caller's chips_range_t: [ptr, size]
    heap,             \* the block malloc'ed by the encoder
    output_position,  \* the encoder's uint32_t write index, in values
    enc,              \* how the call of the encoder ended
    fault,            \* the undefined behaviour the run has executed, if any
    alive,            \* FALSE once the process has been killed
    args,             \* which of the arguments "file" and "input" were given
    frame_count,      \* clock_frame_count_60hz()
    fs_status,        \* FS_SLOT_IMAGE: idle, loading, success or failed
    fs_ext,           \* the extension of the file in the slot
    keybuf,           \* the key buffer: the key codes put and not yet sent
    keys,             \* what the last frame or event sent to the emulator
    event,            \* the sapp_event app_input last handled, if it ran last
    tape,             \* the tape the emulator holds
    flashes,          \* the flashes shown so far, in order
    calls,            \* what handle_file_loading last called, in order
    attempts,         \* how many times a loaded file has been processed
    machine           \* the front-end that runs: "vg5000" or "z1013"

encoder_vars == <<k7_data, tape_buffer, heap, output_position, enc, fault, alive>>

app_vars == <<args, frame_count, fs_status, fs_ext, keybuf, keys, event, tape, flashes,
              calls, attempts, machine>>

vars == <<encoder_vars, app_vars>>

---------------------------------------------------------------------------
(* Bounds of the model *)

\* Inputs of every length 0..MaxLen are encoded.
MaxLen == 35

\* The large inputs have BigLen - 1 and BigLen bytes.
BigLen == 23890

\* The frames of a run.
MaxFrames == 133

---------------------------------------------------------------------------
(* Program constants *)

SHORT == 833
LONG == 1666
SILENCE == 17400
HEADER_SIZE == 32
total_synchro == 30000
FIRST_SYNCHRO == 30000
SECOND_SYNCHRO == 7200
ALLOC_FACTOR == 40
VALUE_BYTES == 2
load_delay_frames == 120
FLASH_DELAY == 10

\* The same two delays in the Z1013 front-end.
z1013_load_delay_frames == 20
Z1013_FLASH_DELAY == 10

\* The content of a cell of the block that no store has reached.
UNWRITTEN == 0 - 1

---------------------------------------------------------------------------
(* Stores into a buffer *)

Max(a, b) == IF a >= b THEN a ELSE b

\* The runs x followed by the runs y.
Join(x, y) ==
    IF x = <<>> THEN y
    ELSE IF y = <<>> THEN x
    ELSE IF x[Len(x)][1] # y[1][1] THEN x \o y
    ELSE SubSeq(x, 1, Len(x) - 1)
         \o <<<<y[1][1], x[Len(x)][2] + y[1][2]>>>>
         \o SubSeq(y, 2, Len(y))

\* The runs of a sequence of cells.
RECURSIVE Runs(_)
Runs(values) ==
    IF values = <<>> THEN <<>>
    ELSE Join(<<<<Head(values), 1>>>>, Runs(Tail(values)))

\* The cells of runs[lo..hi].
RECURSIVE Expand(_, _, _)
Expand(runs, lo, hi) ==
    IF lo > hi THEN <<>>
    ELSE IF lo = hi THEN [k \in 1..runs[lo][2] |-> runs[lo][1]]
    ELSE LET mid == (lo + hi) \div 2
         IN  Expand(runs, lo, mid) \o Expand(runs, mid + 1, hi)

\* The first n cells of the runs, and the cells after the first n.
RECURSIVE TakeCells(_, _)
TakeCells(runs, n) ==
    IF n <= 0 \/ runs = <<>> THEN <<>>
    ELSE IF Head(runs)[2] <= n
         THEN Join(<<Head(runs)>>, TakeCells(Tail(runs), n - Head(runs)[2]))
         ELSE <<<<Head(runs)[1], n>>>>

RECURSIVE DropCells(_, _)
DropCells(runs, n) ==
    IF n <= 0 \/ runs = <<>> THEN runs
    ELSE IF Head(runs)[2] <= n THEN DropCells(Tail(runs), n - Head(runs)[2])
         ELSE <<<<Head(runs)[1], Head(runs)[2] - n>>>> \o Tail(runs)

\* Code that stores the values at buffer[0], buffer[1], ... and returns ret.
Stores(values, ret) == [w |-> Runs(values), len |-> Len(values), ret |-> ret]

\* Code that stores nothing and returns 0.
Nothing == Stores(<<>>, 0)

\* pos += a(buffer + pos); pos += b(buffer + pos): b's stores land a.ret
\* cells after a's first cell.  Had a returned more than it stored, the
\* cells in between stay unwritten; had it returned less, b overwrites.
Then(a, b) ==
    IF a.ret = a.len
    THEN [w |-> Join(a.w, b.w), len |-> a.len + b.len, ret |-> a.ret + b.ret]
    ELSE IF a.ret > a.len
    THEN [w |-> Join(Join(a.w, <<<<UNWRITTEN, a.ret - a.len>>>>), b.w),
          len |-> a.ret + b.len, ret |-> a.ret + b.ret]
    ELSE [w |-> Join(Join(TakeCells(a.w, a.ret), b.w),
                     DropCells(a.w, a.ret + b.len)),
          len |-> Max(a.len, a.ret + b.len), ret |-> a.ret + b.ret]

\* for (i = 0; i < count; i++) pos += e(buffer + pos);
\* Then is associative, so the count-fold sequence is built by halving.
RECURSIVE Repeat(_, _)
Repeat(e, count) ==
    IF count = 0 THEN Nothing
    ELSE IF count = 1 THEN e
    ELSE LET half == Repeat(e, count \div 2)
             both == Then(half, half)
         IN  IF count % 2 = 0 THEN both ELSE Then(both, e)

\* The stores of parts[lo], parts[lo + 1], ..., parts[hi], one after the other.
RECURSIVE Chain(_, _, _)
Chain(parts, lo, hi) ==
    IF lo > hi THEN Nothing
    ELSE IF lo = hi THEN parts[lo]
    ELSE LET mid == (lo + hi) \div 2
         IN  Then(Chain(parts, lo, mid), Chain(parts, mid + 1, hi))

---------------------------------------------------------------------------
(* The impulse emitters *)

\* buffer[0] = 833; buffer[1] = 833; return 2;
tape_short_impulse == Stores(<<SHORT, SHORT>>, 2)

\* buffer[0] = 1666; buffer[1] = 1666; return 2;
tape_long_impulse == Stores(<<LONG, LONG>>, 2)

\* 4 times output_position += tape_short_impulse(buffer + output_position),
\* then the same with tape_long_impulse; returns output_position.
tape_end_of_byte == Then(Repeat(tape_short_impulse, 4), tape_long_impulse)

---------------------------------------------------------------------------
(* The encoder *)

\* Variant: a 1 bit written as a single short impulse.
SerializeBit_OneShort(bit) ==
    IF bit = 1 THEN tape_short_impulse ELSE tape_long_impulse

\* One bit: if (byte & 0x1) two short impulses, else one long impulse.
SerializeBit(bit) ==
    IF bit = 1 THEN Then(tape_short_impulse, tape_short_impulse)
    ELSE tape_long_impulse

\* Variant: the bits taken from the most significant end (byte & 0x80,
\* byte <<= 1).
RECURSIVE SerializeBits_MsbFirst(_, _)
SerializeBits_MsbFirst(byte, j) ==
    IF j = 8 THEN Nothing
    ELSE Then(SerializeBit((byte \div 128) % 2),
              SerializeBits_MsbFirst((byte * 2) % 256, j + 1))

\* for (j = 0; j < 8; j++) { <bit byte & 0x1>; byte >>= 1; }
RECURSIVE SerializeBits(_, _)
SerializeBits(byte, j) ==
    IF j = 8 THEN Nothing
    ELSE Then(SerializeBit(byte % 2), SerializeBits(byte \div 2, j + 1))

\* The body of the header loop for one byte: its bits, then tape_end_of_byte.
HeaderByte(byte) == Then(SerializeBits(byte, 0), tape_end_of_byte)

\* Variant: the inline loop running 3 times instead of 4.
InlineEndOfByte_ThreeShort == Then(Repeat(tape_short_impulse, 3), tape_long_impulse)

\* The end of byte the payload loop writes inline: 4 short impulses, 1 long.
InlineEndOfByte == Then(Repeat(tape_short_impulse, 4), tape_long_impulse)

\* The body of the payload loop for one byte: its bits, then the inline marker.
PayloadByte(byte) == Then(SerializeBits(byte, 0), InlineEndOfByte)

\* tape_buffer_ptr[output_position++] = 17400;
LeadingSilence == Stores(<<SILENCE>>, 1)

\* The first synchronisation: 30000 short impulses and an end of byte.
FirstSynchro == Then(Repeat(tape_short_impulse, FIRST_SYNCHRO), tape_end_of_byte)

\* What the two loop bodies store, for every value of the byte.
HeaderBytes == [byte \in 0..255 |-> HeaderByte(byte)]

PayloadBytes == [byte \in 0..255 |-> PayloadByte(byte)]

\* for (i = 0; i < 32; i++): the header bytes k7_data_ptr[0..31].
HeaderLoop(data) ==
    Chain([i \in 1..HEADER_SIZE |-> HeaderBytes[data[i]]], 1, HEADER_SIZE)

\* Variant: the store of a second silence, tape_buffer_ptr[output_position++]
\* = 10000, which the source has commented out, put back.
SecondSynchro_WithSilence ==
    Then(Stores(<<10000>>, 1),
         Then(Repeat(tape_short_impulse, SECOND_SYNCHRO), tape_end_of_byte))

\* The second synchronisation: 7200 short impulses and an end of byte.
SecondSynchro == Then(Repeat(tape_short_impulse, SECOND_SYNCHRO), tape_end_of_byte)

\* for (i = 32; i < k7_data.size; i++): the remaining bytes.
PayloadLoop(data) ==
    Chain([i \in (HEADER_SIZE + 1)..Len(data) |-> PayloadBytes[data[i]]],
          HEADER_SIZE + 1, Len(data))

\* if (k7_data.size < 32) return false;
InputTooShort(data) == Len(data) < HEADER_SIZE

\* tape_buffer->size = (k7_data.size + total_synchro) * 40: the argument of malloc,
\* a number of bytes.
AllocatedBytes(data) == (Len(data) + total_synchro) * ALLOC_FACTOR

\* Variant: the size reported in values instead of bytes.
ReportedSize_InValues(position) == position

\* tape_buffer->size = output_position * 2;
ReportedSize(position) == position * VALUE_BYTES

\* Variant: the capacity taken from the input size alone, without the
\* allowance total_synchro.
CapacityAssert_InputOnly(position, data) == position < Len(data) * ALLOC_FACTOR

\* assert(output_position < tape_buffer->size), size being the allocated bytes.
CapacityAssert(position, data) == position < AllocatedBytes(data)

(***************************************************************************)
(* The call k7_to_tape_buffer(sys, data, &range), range being the caller's *)
(* chips_range_t before the call.  The result names what the call returns  *)
(* (ret), the range after it, the bytes it asked malloc for (0: no call of *)
(* malloc), the cells it stored from ptr on (stores, stored in number),    *)
(* the final output_position and whether the three assertions held. malloc *)
(* is taken to succeed.  output_position and size are 32 and 64 bits wide; *)
(* with the inputs of this model they stay below 2^31.                     *)
(***************************************************************************)
\* return false, before anything else is done.
Rejected(range) ==
    [ret |-> FALSE, range |-> range, malloc |-> 0, stores |-> <<>>,
     stored |-> 0, position |-> 0, asserts |-> TRUE]

\* The call from the allocation to return success.
Encoded(data) ==
    LET sync1 == Then(LeadingSilence, FirstSynchro)
        hdr   == Then(sync1, HeaderLoop(data))
        sync2 == Then(hdr, SecondSynchro)
        all   == Then(sync2, PayloadLoop(data))
    IN  [ret |-> TRUE,
         range |-> [ptr |-> "block", size |-> ReportedSize(all.ret)],
         malloc |-> AllocatedBytes(data),
         stores |-> all.w,
         stored |-> all.len,
         position |-> all.ret,
         asserts |-> /\ CapacityAssert(sync1.ret, data)
                     /\ CapacityAssert(hdr.ret, data)
                     /\ CapacityAssert(sync2.ret, data)]

\* Variant: the block allocated before the length of the input is looked at.
k7_to_tape_buffer_AllocFirst(data, range) ==
    IF InputTooShort(data)
    THEN [Rejected(range) EXCEPT
            !.range = [ptr |-> "block", size |-> AllocatedBytes(data)],
            !.malloc = AllocatedBytes(data)]
    ELSE Encoded(data)

k7_to_tape_buffer(data, range) ==
    IF InputTooShort(data) THEN Rejected(range) ELSE Encoded(data)

---------------------------------------------------------------------------
(* The inputs *)

HeaderSeeds == {0, 165, 255}
PayloadSeeds == {0, 90, 255}
Steps == {0, 1, 37}

\* A file of n bytes: the header bytes run from a in steps of d, the payload
\* bytes from p in steps of d (mod 256).
MakeInput(n, a, d, p) ==
    [i \in 1..n |-> IF i <= HEADER_SIZE THEN (a + (i - 1) * d) % 256
                    ELSE (p + (i - HEADER_SIZE - 1) * d) % 256]

SmallInputs ==
    {MakeInput(n, a, d, p) : n \in 0..MaxLen, a \in HeaderSeeds,
                             d \in Steps, p \in PayloadSeeds}

BigInputs ==
    {MakeInput(n, 255, 0, 255) : n \in (BigLen - 1)..BigLen}

\* What the caller's chips_range_t holds before the call: it is a local of
\* handle_file_loading with no initializer.
PriorRanges == {[ptr |-> "indeterminate", size |-> 0],
                [ptr |-> "indeterminate", size |-> 4096]}

\* No event: app_input was not the last to run.
NoEvent == [type |-> "none", key_code |-> "none", char_code |-> 0]

\* No block: the state of the heap before the encoder has called malloc.
NoBlock == [state |-> "none", bytes |-> 0, cells |-> <<>>, stored |-> 0]

---------------------------------------------------------------------------
(* The process *)

\* What the steps of a handler read and change.
Process ==
    [alive |-> alive, fault |-> fault, heap |-> heap, tape_buffer |-> tape_buffer,
     output_position |-> output_position, enc |-> enc, fs_status |-> fs_status,
     keybuf |-> keybuf, keys |-> keys, tape |-> tape, flashes |-> flashes,
     calls |-> calls, attempts |-> attempts]

\* The variables take the values of the process m.
Becomes(m) ==
    /\ alive' = m.alive
    /\ fault' = m.fault
    /\ heap' = m.heap
    /\ tape_buffer' = m.tape_buffer
    /\ output_position' = m.output_position
    /\ enc' = m.enc
    /\ fs_status' = m.fs_status
    /\ keybuf' = m.keybuf
    /\ keys' = m.keys
    /\ tape' = m.tape
    /\ flashes' = m.flashes
    /\ calls' = m.calls
    /\ attempts' = m.attempts

\* The block after the call: the size malloc was asked for, and the cells
\* from ptr on that the stores reached, those past the block's end included.
BlockAfter(r) ==
    [state |-> "live", bytes |-> r.malloc, cells |-> r.stores, stored |-> r.stored]

\* A store at or past the end of the block is undefined behaviour: the
\* process is killed, or the store lands in the memory behind the block and
\* the call goes on.
Overruns(r) == r.stored > r.malloc \div VALUE_BYTES

\* The process after the call of k7_to_tape_buffer whose result is r.  An
\* assertion that fails aborts the process; the three assertions come before
\* the payload loop, the only place where the stores can pass the block's end.
AfterEncode(m, r, killed) ==
    IF ~m.alive THEN m
    ELSE IF ~r.asserts
    THEN [m EXCEPT !.alive = FALSE,
                   !.enc = "assertion failed",
                   !.tape_buffer = [ptr |-> "block", size |-> r.malloc],
                   !.heap = NoBlock,
                   !.output_position = 0,
                   !.calls = Append(@, "k7_to_tape_buffer")]
    ELSE IF Overruns(r) /\ killed
    THEN [m EXCEPT !.alive = FALSE,
                   !.fault = "heap overrun",
                   !.enc = "killed",
                   !.tape_buffer = [ptr |-> "block", size |-> r.malloc],
                   !.heap = NoBlock,
                   !.output_position = 0,
                   !.calls = Append(@, "k7_to_tape_buffer")]
    ELSE [m EXCEPT !.fault = IF Overruns(r) THEN "heap overrun" ELSE @,
                   !.enc = IF r.ret THEN "true" ELSE "false",
                   !.tape_buffer = r.range,
                   !.heap = IF r.malloc > 0 THEN BlockAfter(r) ELSE @,
                   !.output_position = r.position,
                   !.calls = Append(@, "k7_to_tape_buffer")]

---------------------------------------------------------------------------
(* The encoder called on its own *)

AppIdle ==
    /\ args = [file |-> FALSE, input |-> FALSE]
    /\ frame_count = 0
    /\ fs_status = "idle"
    /\ fs_ext = "k7"
    /\ keybuf = <<>>
    /\ keys = <<>>
    /\ event = NoEvent
    /\ tape = [inserted |-> FALSE, size |-> 0]
    /\ flashes = <<>>
    /\ calls = <<>>
    /\ attempts = 0
    /\ machine = "vg5000"

InitEncoder(inputs) ==
    /\ k7_data \in inputs
    /\ tape_buffer \in PriorRanges
    /\ heap = NoBlock
    /\ output_position = 0
    /\ enc = "idle"
    /\ fault = "none"
    /\ alive = TRUE
    /\ AppIdle

CallEncoder ==
    /\ enc = "idle"
    /\ LET r == k7_to_tape_buffer(k7_data, tape_buffer)
       IN  \E killed \in IF Overruns(r) THEN BOOLEAN ELSE {FALSE} :
              Becomes(AfterEncode(Process, r, killed))
    /\ UNCHANGED <<k7_data, args, frame_count, fs_ext, machine, event>>

NextEncoder == CallEncoder

SpecEncoder == InitEncoder(SmallInputs) /\ [][NextEncoder]_vars

SpecCapacity == InitEncoder(SmallInputs \cup BigInputs) /\ [][NextEncoder]_vars

---------------------------------------------------------------------------
(* The front-end *)

\* The text "CLOAD\n" and the text of the argument "input", as key codes.
CLOAD == <<67, 76, 79, 65, 68, 10>>
InputText == <<82, 85, 78, 10>>

\* The files the argument "file" may name.
AppLens == {0, HEADER_SIZE - 1, HEADER_SIZE, HEADER_SIZE + 1}
AppFiles == {MakeInput(n, 165, 1, 255) : n \in AppLens}

\* The files the Z1013 front-end is started with: a text, or an image for
\* z1013_quickload.
Z1013Text == <<72, 73, 10>>
Z1013Files == {Z1013Text, <<>>}

\* The end of app_init, the same in both front-ends: with the argument
\* "file" the file is started loading, or else the input text is put into
\* the key buffer.
StartApp(front) ==
    /\ machine = front
    /\ args \in [file : BOOLEAN, input : BOOLEAN]
    /\ k7_data \in IF ~args.file THEN {<<>>}
                   ELSE IF front = "vg5000" THEN AppFiles ELSE Z1013Files
    /\ fs_ext \in IF front = "vg5000"
                  THEN IF args.file THEN {"k7", "bin"} ELSE {"k7"}
                  ELSE IF args.file THEN {"txt", "bas", "z80"} ELSE {"z80"}
    /\ fs_status = IF args.file THEN "loading" ELSE "idle"
    /\ keybuf = IF ~args.file /\ args.input THEN InputText ELSE <<>>
    /\ frame_count = 0
    /\ tape_buffer = [ptr |-> "indeterminate", size |-> 0]
    /\ heap = NoBlock
    /\ output_position = 0
    /\ enc = "idle"
    /\ fault = "none"
    /\ alive = TRUE
    /\ keys = <<>>
    /\ event = NoEvent
    /\ tape = [inserted |-> FALSE, size |-> 0]
    /\ flashes = <<>>
    /\ calls = <<>>
    /\ attempts = 0

\* app_init of the VG5000 front-end.
Init == StartApp("vg5000")

\* fs_dowork(): a load under way goes on, succeeds or fails.
FsDowork(status) ==
    IF status = "loading" THEN {"loading", "success", "failed"} ELSE {status}

\* keybuf_put(text); what names the text put: CLOAD, input or file.
KeybufPut(m, text, what) ==
    IF ~m.alive THEN m
    ELSE [m EXCEPT !.keybuf = @ \o text,
                   !.calls = Append(@, IF what = "CLOAD" THEN "keybuf_put CLOAD"
                                       ELSE IF what = "input" THEN "keybuf_put input"
                                       ELSE "keybuf_put file")]

\* load_success = vg5000_insert_tape(&state.vg5000, tape_buffer): the
\* emulator takes the range or refuses it.
InsertTape(m, ok) ==
    IF ~m.alive THEN m
    ELSE [m EXCEPT !.tape = IF ok THEN [inserted |-> TRUE, size |-> m.tape_buffer.size]
                            ELSE @,
                   !.calls = Append(@, "vg5000_insert_tape")]

\* printf("Inserting tape: %s\n", ...)
Printf(m, success) ==
    IF ~m.alive THEN m
    ELSE [m EXCEPT !.calls = Append(@, IF success THEN "printf success"
                                       ELSE "printf failure")]

\* k7_to_tape_buffer_free(range): free(range.ptr).  Freeing the block
\* releases it.  A pointer that malloc did not return, or a block already
\* freed, is undefined behaviour: the process is killed, or goes on.
FreeTape(m, range, killed) ==
    IF ~m.alive THEN m
    ELSE IF range.ptr = "block" /\ m.heap.state = "live"
    THEN [m EXCEPT !.heap = [@ EXCEPT !.state = "freed", !.cells = <<>>],
                   !.calls = Append(@, "k7_to_tape_buffer_free")]
    ELSE [m EXCEPT !.fault = "invalid free",
                   !.alive = ~killed,
                   !.calls = Append(@, "k7_to_tape_buffer_free")]

\* gfx_flash_success() and gfx_flash_error()
Flash(m, which) ==
    IF ~m.alive THEN m
    ELSE [m EXCEPT !.flashes = Append(@, which),
                   !.calls = Append(@, IF which = "success" THEN "gfx_flash_success"
                                       ELSE "gfx_flash_error")]

\* fs_reset(FS_SLOT_IMAGE)
FsReset(m) ==
    IF ~m.alive THEN m
    ELSE [m EXCEPT !.fs_status = "idle", !.calls = Append(@, "fs_reset")]

\* The .k7 branch of handle_file_loading; r is the result of the encoder.
LoadK7(m, r, insert_ok, die_enc, die_free) ==
    LET encoded  == AfterEncode(m, r, die_enc)
        inserted == IF r.ret THEN KeybufPut(InsertTape(encoded, insert_ok), CLOAD, "CLOAD")
                    ELSE encoded
        printed  == Printf(inserted, r.ret /\ insert_ok)
    IN  FreeTape(printed, printed.tape_buffer, die_free)

\* Variant: the text of the argument "input" put whether the load succeeded
\* or not.
AfterLoad_InputAlways(m, success, count) ==
    LET shown == IF success
                 THEN IF count > load_delay_frames + FLASH_DELAY
                      THEN Flash(m, "success") ELSE m
                 ELSE Flash(m, "error")
        put   == IF args.input THEN KeybufPut(shown, InputText, "input") ELSE shown
    IN  FsReset(put)

\* What handle_file_loading does with a loaded file once the delay is over;
\* count is clock_frame_count_60hz(), success is load_success.
AfterLoad(m, success, count) ==
    LET shown == IF success
                 THEN LET flashed == IF count > load_delay_frames + FLASH_DELAY
                                     THEN Flash(m, "success") ELSE m
                      IN  IF args.input THEN KeybufPut(flashed, InputText, "input")
                          ELSE flashed
                 ELSE Flash(m, "error")
    IN  FsReset(shown)

\* send_keybuf_input(): keybuf_get() gives 0, or the next key code, which is
\* sent down and up.
SendKeybufInput(m, ready) ==
    IF ~m.alive THEN m
    ELSE IF ready /\ m.keybuf # <<>>
    THEN [m EXCEPT !.keybuf = Tail(@),
                   !.keys = <<<<"down", Head(m.keybuf)>>, <<"up", Head(m.keybuf)>>>>]
    ELSE [m EXCEPT !.keys = <<>>]

\* app_frame: the emulator runs, then handle_file_loading and
\* send_keybuf_input.
AppFrame ==
    /\ machine = "vg5000"
    /\ alive
    /\ frame_count < MaxFrames
    /\ frame_count' = frame_count + 1
    /\ \E status \in FsDowork(fs_status), ready \in BOOLEAN :
         LET count == frame_count + 1
             m     == [Process EXCEPT !.fs_status = status]
         IN  IF ~(status = "success" /\ count > load_delay_frames)
             THEN Becomes(SendKeybufInput(m, ready))
             ELSE LET start == [m EXCEPT !.attempts = @ + 1, !.calls = <<>>]
                  IN  IF fs_ext = "k7"
                      THEN \E prior \in PriorRanges :
                           LET r == k7_to_tape_buffer(k7_data, prior)
                           IN  \E insert_ok \in IF r.ret THEN BOOLEAN ELSE {FALSE},
                                  die_enc \in IF Overruns(r) THEN BOOLEAN ELSE {FALSE},
                                  die_free \in IF r.ret THEN {FALSE} ELSE BOOLEAN :
                                  Becomes(SendKeybufInput(
                                      AfterLoad(LoadK7([start EXCEPT !.tape_buffer = prior],
                                                       r, insert_ok, die_enc, die_free),
                                                r.ret /\ insert_ok, count),
                                      ready))
                      ELSE Becomes(SendKeybufInput(AfterLoad(start, FALSE, count), ready))
    /\ event' = NoEvent
    /\ UNCHANGED <<k7_data, args, fs_ext, machine>>

\* toupper(c), for a c that unsigned char holds, in the C locale.
toupper(c) == IF c >= 97 /\ c <= 122 THEN c - 32 ELSE c

\* Variant: the character sent as typed, without toupper.
CharEvent_AsTyped(c) ==
    IF c > 32 /\ c < 127 THEN <<<<"down", c>>, <<"up", c>>>> ELSE <<>>

\* case SAPP_EVENTTYPE_CHAR: what is sent for the character code c.
CharEvent(c) ==
    IF c > 32 /\ c < 127
    THEN <<<<"down", toupper(c)>>, <<"up", toupper(c)>>>>
    ELSE <<>>

\* The inner switch: the key code c of a special key; 0 for END and for
\* every key that is not in the list.
KeyCodes ==
    [SPACE |-> 32, LEFT_ALT |-> 1, HOME |-> 2, TAB |-> 6, ESCAPE |-> 7,
     LEFT |-> 8, RIGHT |-> 9, DOWN |-> 10, UP |-> 11, ENTER |-> 13,
     BACKSPACE |-> 12, RIGHT_ALT |-> 14, LEFT_CONTROL |-> 15]

SpecialKey(key_code) ==
    IF key_code \in DOMAIN KeyCodes THEN KeyCodes[key_code] ELSE 0

\* case SAPP_EVENTTYPE_KEY_DOWN, SAPP_EVENTTYPE_KEY_UP: what is sent.
KeyEvent(type, key_code) ==
    LET c        == SpecialKey(key_code)
        triangle == IF key_code = "END" /\ type = "KEY_DOWN"
                    THEN <<<<"triangle", 0>>>> ELSE <<>>
        matrix   == IF c = 0 THEN <<>>
                    ELSE IF type = "KEY_DOWN" THEN <<<<"down", c>>>>
                    ELSE <<<<"up", c>>>>
    IN  triangle \o matrix

\* The switch of app_input: what the handler sends for the event ev.
Sent(ev) ==
    IF ev.type = "CHAR" THEN CharEvent(ev.char_code)
    ELSE IF ev.type \in {"KEY_DOWN", "KEY_UP"} THEN KeyEvent(ev.type, ev.key_code)
    ELSE <<>>

\* The events delivered: characters around the limits 0x20 and 0x7F and
\* beyond 8 bits, every special key and two others, down and up, and an
\* event of another type.
CharCodes == {10, 32, 33, 65, 97, 122, 123, 126, 127, 233, 353}

KeyNames == DOMAIN KeyCodes \cup {"END", "F1", "A"}

Events ==
    {[type |-> "CHAR", key_code |-> "none", char_code |-> c] : c \in CharCodes}
    \cup {[type |-> t, key_code |-> k, char_code |-> 0] :
             t \in {"KEY_DOWN", "KEY_UP"}, k \in KeyNames}
    \cup {[type |-> "MOUSE_MOVE", key_code |-> "none", char_code |-> 0]}

\* app_input(event): with the UI compiled in, ui_input may take the event,
\* and then nothing is sent.
AppInput ==
    /\ machine = "vg5000"
    /\ alive
    /\ \E ev \in Events, ui_handled \in BOOLEAN :
          /\ event' = ev
          /\ keys' = IF ui_handled THEN <<>> ELSE Sent(ev)
    /\ UNCHANGED <<encoder_vars, args, frame_count, fs_status, fs_ext, keybuf,
                   tape, flashes, calls, attempts, machine>>

Next == AppFrame

Spec == Init /\ [][Next]_vars

---------------------------------------------------------------------------
(* The Z1013 front-end (examples/sokol/z1013.c) *)

\* load_success = z1013_quickload(&z1013, fs_ptr(), fs_size()): the emulator
\* takes the image or refuses it.
Quickload(m, ok) ==
    IF ~m.alive THEN m
    ELSE [m EXCEPT !.calls = Append(@, IF ok THEN "z1013_quickload ok"
                                       ELSE "z1013_quickload failed")]

\* fs_free()
FsFree(m) ==
    IF ~m.alive THEN m
    ELSE [m EXCEPT !.fs_status = "idle", !.calls = Append(@, "fs_free")]

\* The load of handle_file_loading: a text file is put into the key buffer
\* and counts as loaded, any other file goes to z1013_quickload.
Z1013Load(m, ext, text, quick_ok) ==
    IF ext \in {"txt", "bas"} THEN KeybufPut(m, text, "file")
    ELSE Quickload(m, quick_ok)

\* What handle_file_loading does after the load.
Z1013AfterLoad(m, success, count) ==
    LET shown == IF success
                 THEN LET flashed == IF count > z1013_load_delay_frames + Z1013_FLASH_DELAY
                                     THEN Flash(m, "success") ELSE m
                      IN  IF args.input THEN KeybufPut(flashed, InputText, "input")
                          ELSE flashed
                 ELSE Flash(m, "error")
    IN  FsFree(shown)

\* handle_input(frame_time_us): keybuf_get() gives 0, or the next key code,
\* which is sent down and up.
handle_input(m, ready) ==
    IF ~m.alive THEN m
    ELSE IF ready /\ m.keybuf # <<>>
    THEN [m EXCEPT !.keybuf = Tail(@),
                   !.keys = <<<<"down", Head(m.keybuf)>>, <<"up", Head(m.keybuf)>>>>]
    ELSE [m EXCEPT !.keys = <<>>]

\* app_frame of the Z1013 front-end: the emulator runs, then
\* handle_file_loading and handle_input.
Z1013AppFrame ==
    /\ machine = "z1013"
    /\ alive
    /\ frame_count < MaxFrames
    /\ frame_count' = frame_count + 1
    /\ \E status \in FsDowork(fs_status), ready \in BOOLEAN :
         LET count == frame_count + 1
             m     == [Process EXCEPT !.fs_status = status]
         IN  IF ~(status = "success" /\ count > z1013_load_delay_frames)
             THEN Becomes(handle_input(m, ready))
             ELSE LET start == [m EXCEPT !.attempts = @ + 1, !.calls = <<>>]
                      text  == fs_ext \in {"txt", "bas"}
                  IN  \E quick_ok \in IF text THEN {TRUE} ELSE BOOLEAN :
                         Becomes(handle_input(
                             Z1013AfterLoad(Z1013Load(start, fs_ext, k7_data, quick_ok),
                                            quick_ok, count),
                             ready))
    /\ event' = NoEvent
    /\ UNCHANGED <<k7_data, args, fs_ext, machine>>

\* The VG5000 front-end started without a file, with frames and input events.
InitInput == StartApp("vg5000") /\ ~args.file

NextInput == AppFrame \/ AppInput

SpecInput == InitInput /\ [][NextInput]_vars

\* Either front-end, started with any of the arguments.
InitFrontEnds == StartApp("vg5000") \/ StartApp("z1013")

NextFrontEnds == AppFrame \/ Z1013AppFrame

SpecFrontEnds == InitFrontEnds /\ [][NextFrontEnds]_vars

---------------------------------------------------------------------------
(* What the properties of the encoder are stated with *)

\* The pulse train the caller receives: the values of the range (ptr, size).
\* A cell of the range that no store has reached reads as UNWRITTEN.
PulseTrain ==
    LET cells == Expand(heap.cells, 1, Len(heap.cells))
        count == tape_buffer.size \div VALUE_BYTES
    IN  IF count = Len(cells) THEN cells
        ELSE [k \in 1..count |-> IF k <= Len(cells) THEN cells[k] ELSE UNWRITTEN]

\* Bit j (0: least significant) of a byte.
BitOf(byte, j) == (byte \div (2 ^ j)) % 2

Ones(byte) == Cardinality({j \in 0..7 : BitOf(byte, j) = 1})

\* The number of values a byte takes on the tape, its end-of-byte marker included.
ByteValues(byte) == 4 * Ones(byte) + 2 * (8 - Ones(byte)) + 10

RECURSIVE SumValues(_, _, _)
SumValues(data, lo, hi) ==
    IF lo > hi THEN 0 ELSE ByteValues(data[lo]) + SumValues(data, lo + 1, hi)

\* n times the value v.
Run(v, n) == [k \in 1..n |-> v]

\* An end-of-byte marker: 4 short impulses, then 1 long impulse.
Marker == Run(SHORT, 8) \o Run(LONG, 2)

\* The values of one bit: two short impulses for 1, one long impulse for 0.
BitPulses(bit) == IF bit = 1 THEN Run(SHORT, 4) ELSE Run(LONG, 2)

\* A byte on the tape, least significant bit first.
BytePulses(byte) ==
    BitPulses(BitOf(byte, 0)) \o BitPulses(BitOf(byte, 1)) \o
    BitPulses(BitOf(byte, 2)) \o BitPulses(BitOf(byte, 3)) \o
    BitPulses(BitOf(byte, 4)) \o BitPulses(BitOf(byte, 5)) \o
    BitPulses(BitOf(byte, 6)) \o BitPulses(BitOf(byte, 7))

RECURSIVE FramedBytes(_, _, _)
FramedBytes(data, lo, hi) ==
    IF lo > hi THEN <<>>
    ELSE BytePulses(data[lo]) \o Marker \o FramedBytes(data, lo + 1, hi)

\* The tape of a file, as the format lays it out.
ExpectedTrain(data) ==
    <<17400>> \o Run(833, 2 * 30000) \o Marker \o
    FramedBytes(data, 1, 32) \o
    Run(833, 2 * 7200) \o Marker \o
    FramedBytes(data, 33, Len(data))

\* Where byte i (from 1) starts on the tape.
ByteStart(data, i) ==
    IF i <= 32 THEN 1 + 60000 + 10 + SumValues(data, 1, i - 1)
    ELSE 1 + 60000 + 10 + SumValues(data, 1, 32) + 14400 + 10
         + SumValues(data, 33, i - 1)

\* Where bit j of byte i starts on the tape.
BitStart(data, i, j) ==
    ByteStart(data, i)
    + 4 * Cardinality({l \in 0..(j - 1) : BitOf(data[i], l) = 1})
    + 2 * Cardinality({l \in 0..(j - 1) : BitOf(data[i], l) = 0})

\* The n values of the train that follow its first at values.
Slice(train, at, n) ==
    [k \in 1..n |-> IF at + k <= Len(train) THEN train[at + k] ELSE UNWRITTEN]

\* A decoder of the tape.  ReadBit reads one bit at position at (from 0):
\* two short impulses are a 1, one long impulse is a 0.
ReadBit(train, at) ==
    IF at + 4 <= Len(train) /\ Slice(train, at, 4) = Run(833, 4)
    THEN [bit |-> 1, next |-> at + 4]
    ELSE IF at + 2 <= Len(train) /\ Slice(train, at, 2) = Run(1666, 2)
    THEN [bit |-> 0, next |-> at + 2]
    ELSE [bit |-> 2, next |-> at]

\* Reads the 8 bits of a byte, least significant first, and skips the 5
\* impulses of the marker behind them.
RECURSIVE ReadByte(_, _, _, _)
ReadByte(train, at, j, acc) ==
    IF j = 8 THEN [byte |-> acc, next |-> at + 10]
    ELSE LET b == ReadBit(train, at)
         IN  IF b.bit = 2 THEN [byte |-> 0 - 1, next |-> at]
             ELSE ReadByte(train, b.next, j + 1, acc + b.bit * (2 ^ j))

RECURSIVE ReadBytes(_, _, _)
ReadBytes(train, at, count) ==
    IF count = 0 THEN <<>>
    ELSE LET b == ReadByte(train, at, 0, 0)
         IN  <<b.byte>> \o ReadBytes(train, b.next, count - 1)

\* The header region starts behind the leading value, the first
\* synchronisation and its end-of-byte marker.
DecodeHeader(train) == ReadBytes(train, 1 + 60000 + 10, 32)

---------------------------------------------------------------------------
(* Properties of the encoder *)

\* C1: an input of fewer than 32 bytes makes the call return false; it
\* allocates nothing, stores nothing, and leaves the caller's range (ptr and
\* size) as it was before the call.
C1_ShortInputRejected ==
    [][(CallEncoder /\ Len(k7_data) < 32) =>
          /\ enc' = "false"
          /\ tape_buffer' = tape_buffer
          /\ heap' = NoBlock
          /\ fault' = "none"]_vars

C1_Witness ==
    /\ enc = "false"
    /\ Len(k7_data) = 31
    /\ tape_buffer = [ptr |-> "indeterminate", size |-> 4096]
    /\ heap.state = "none"

\* C2: for every input of 32 bytes or more the call returns true and the
\* size it reports is less than (n + 30000) * 40 * 2.
C2_SuccessWithinCapacity ==
    (enc # "idle" /\ Len(k7_data) >= 32) =>
        /\ enc = "true"
        /\ tape_buffer.size < (Len(k7_data) + 30000) * 40 * 2

\* C3: for every input of 32 bytes or more every value is stored inside the
\* block obtained from malloc: no store lands at or past its end.
C3_StoresInsideBlock ==
    (enc # "idle" /\ Len(k7_data) >= 32) =>
        /\ fault = "none"
        /\ heap.stored * 2 <= heap.bytes

\* C4: the pulse train of an input of 32 bytes or more is exactly: 17400,
\* 30000 short impulses, a marker, bytes 0..31 each followed by a marker,
\* 7200 short impulses, a marker, bytes 32..n-1 each followed by a marker.
C4_TrainLayout ==
    enc = "true" => PulseTrain = ExpectedTrain(k7_data)

C4_Witness ==
    /\ enc = "true"
    /\ Len(k7_data) = 34
    /\ k7_data[1] = 165 /\ k7_data[2] = 166 /\ k7_data[33] = 90
    /\ PulseTrain[1] = 17400
    /\ Slice(PulseTrain, 60001, 10) = Marker

\* C5: the reported size is twice the number of values stored, and that
\* number is 1 + 60000 + 10 + 14400 + 10 plus, for every input byte,
\* 4 * ones + 2 * zeros + 10; 32 zero bytes give 75253 values and 150506
\* bytes, and a 33rd byte 0xFF adds 42 values.
C5_ReportedSize ==
    enc = "true" =>
        LET stored == heap.stored
            n == Len(k7_data)
        IN  /\ tape_buffer.size = 2 * stored
            /\ output_position = stored
            /\ Len(PulseTrain) = stored
            /\ stored = 1 + 60000 + 10 + 14400 + 10 + SumValues(k7_data, 1, n)
            /\ k7_data = Run(0, 32) => stored = 75253 /\ tape_buffer.size = 150506
            /\ (n = 33 /\ k7_data[33] = 255) =>
                   stored = 1 + 60000 + 10 + 14400 + 10
                            + SumValues(k7_data, 1, 32) + 42
            /\ k7_data = Run(0, 32) \o <<255>> => stored = 75253 + 42

C5_Witness ==
    /\ enc = "true"
    /\ k7_data = Run(0, 32) \o <<255>>
    /\ output_position = 75295
    /\ tape_buffer.size = 150590

\* C6: decoding the header region of the pulse train (two short impulses a
\* 1, one long impulse a 0, least significant bit first, the marker skipped
\* after every 8 bits) gives back input bytes 0..31.
C6_HeaderRoundTrip ==
    enc = "true" => DecodeHeader(PulseTrain) = SubSeq(k7_data, 1, 32)

C6_Witness ==
    /\ enc = "true"
    /\ k7_data[1] = 165 /\ k7_data[2] = 202 /\ k7_data[32] = 32
    /\ DecodeHeader(PulseTrain)[2] = 202

\* C7: in the header and in the payload every byte goes out least
\* significant bit first; a 0 bit is one long impulse (2 values of 1666), a
\* 1 bit is two short impulses (4 values of 833); each emitter stores
\* exactly two values and returns 2.
C7_BitEncoding ==
    /\ tape_short_impulse = Stores(<<833, 833>>, 2)
    /\ tape_long_impulse = Stores(<<1666, 1666>>, 2)
    /\ enc = "true" =>
         LET train == PulseTrain
         IN  \A i \in 1..Len(k7_data) : \A j \in 0..7 :
                LET at == BitStart(k7_data, i, j)
                IN  IF BitOf(k7_data[i], j) = 1
                    THEN /\ Slice(train, at, 4) = <<833, 833, 833, 833>>
                         /\ BitStart(k7_data, i, j + 1) = at + 4
                    ELSE /\ Slice(train, at, 2) = <<1666, 1666>>
                         /\ BitStart(k7_data, i, j + 1) = at + 2

C7_Witness ==
    /\ enc = "true"
    /\ Len(k7_data) = 35
    /\ k7_data[1] = 165 /\ k7_data[35] = 92
    /\ Slice(PulseTrain, BitStart(k7_data, 35, 2), 4) = <<833, 833, 833, 833>>
    /\ Slice(PulseTrain, BitStart(k7_data, 35, 5), 2) = <<1666, 1666>>
    /\ Slice(PulseTrain, BitStart(k7_data, 1, 1), 2) = <<1666, 1666>>

\* C8: every end-of-byte marker is 10 values, eight 833 then two 1666; the
\* marker the payload loop writes inline is value for value the one
\* tape_end_of_byte writes and advances the position by as much.
C8_EndOfByte ==
    /\ tape_end_of_byte = Stores(Marker, 10)
    /\ InlineEndOfByte.w = tape_end_of_byte.w
    /\ InlineEndOfByte.ret = tape_end_of_byte.ret
    /\ enc = "true" =>
         LET train == PulseTrain
         IN  /\ Slice(train, 1 + 60000, 10) = Marker
             /\ Slice(train, ByteStart(k7_data, 33) - 10, 10) = Marker
             /\ \A i \in 1..Len(k7_data) :
                   /\ Slice(train, BitStart(k7_data, i, 8), 10) = Marker
                   /\ i > 32 => Slice(train, BitStart(k7_data, i, 8), 10)
                                  = Slice(train, BitStart(k7_data, 1, 8), 10)
             /\ Len(k7_data) > 32 =>
                   output_position = BitStart(k7_data, Len(k7_data), 8) + 10

C8_Witness ==
    /\ enc = "true"
    /\ Len(k7_data) = 34
    /\ Slice(PulseTrain, BitStart(k7_data, 34, 8), 10) = Marker
    /\ Len(PulseTrain) = BitStart(k7_data, 34, 8) + 10

---------------------------------------------------------------------------
(* Properties of the file loading *)

\* How many times handle_file_loading called f, and whether it called f
\* before g.
Count(log, f) == Cardinality({i \in DOMAIN log : log[i] = f})

CalledBefore(log, f, g) ==
    \E i, j \in DOMAIN log : i < j /\ log[i] = f /\ log[j] = g

\* C9: handle_file_loading calls k7_to_tape_buffer_free exactly once for
\* each block the encoder allocated, after the tape went to the emulator,
\* and never on a range the encoder did not allocate: when the encoder
\* rejects a short input nothing is released.
C9_ReleaseOncePerBlock ==
    attempts > 0 =>
        LET frees  == Count(calls, "k7_to_tape_buffer_free")
            blocks == IF heap.state = "none" THEN 0 ELSE 1
        IN  /\ frees = blocks
            /\ fault # "invalid free"
            /\ heap.state # "live"
            /\ frees = 1 =>
                 CalledBefore(calls, "vg5000_insert_tape", "k7_to_tape_buffer_free")

\* C10: a processed file has its outcome shown, a success flash on success
\* and an error flash on failure, and is processed once: the slot is reset
\* after the single attempt.
C10_OutcomeShownOnce ==
    attempts > 0 =>
        LET success == fs_ext = "k7" /\ enc = "true" /\ tape.inserted
        IN  /\ attempts = 1
            /\ fs_status = "idle"
            /\ flashes = IF success THEN <<"success">> ELSE <<"error">>

---------------------------------------------------------------------------
(* Properties of the assertions and of the keys *)

\* C11: the three assertions output_position < tape_buffer->size of
\* k7_to_tape_buffer, made after the first synchronisation, after the header
\* and after the second synchronisation, hold for every input of 32 bytes
\* or more: the call never ends in an assertion failure.
C11_AssertionsHold ==
    (enc # "idle" /\ Len(k7_data) >= 32) =>
        /\ enc # "assertion failed"
        /\ ByteStart(k7_data, 1) < (Len(k7_data) + 30000) * 40
        /\ ByteStart(k7_data, 33) - 14410 < (Len(k7_data) + 30000) * 40
        /\ ByteStart(k7_data, 33) < (Len(k7_data) + 30000) * 40

C11_Witness ==
    /\ enc = "true"
    /\ k7_data = Run(255, 35)
    /\ ByteStart(k7_data, 1) = 60011
    /\ ByteStart(k7_data, 33) = 60011 + 32 * 42 + 14410

\* C12: when handle_file_loading processes a .k7 file, it puts "CLOAD\n"
\* into the key buffer only if the load ends as a success (the encoder
\* succeeded and the tape was inserted); it never both queues "CLOAD\n" and
\* shows the error flash.
C12_CloadOnlyOnSuccess ==
    (attempts > 0 /\ fs_ext = "k7") =>
        /\ ~(/\ Count(calls, "keybuf_put CLOAD") > 0
              /\ Count(calls, "gfx_flash_error") > 0)
        /\ Count(calls, "keybuf_put CLOAD") > 0 => (enc = "true" /\ tape.inserted)

\* C13: with the argument "file" the text of the argument "input" is not
\* queued at init; it is queued only in a frame in which a file load ended
\* with success, never after a failed load, and for a .k7 file after
\* "CLOAD\n".  A loaded file is processed only once the frame count exceeds
\* the load delay: 120 frames in the VG5000 front-end, 20 in the Z1013 one.
C13_InputAfterSuccessfulLoad ==
    LET puts      == Count(calls, "keybuf_put input")
        delay     == IF machine = "vg5000" THEN 120 ELSE 20
        succeeded == IF machine = "vg5000"
                     THEN fs_ext = "k7" /\ enc = "true" /\ tape.inserted
                     ELSE \/ fs_ext \in {"txt", "bas"}
                          \/ Count(calls, "z1013_quickload ok") = 1
    IN  /\ (args.file /\ attempts = 0) => (keybuf = <<>> /\ calls = <<>>)
        /\ attempts > 0 => frame_count > delay
        /\ args.file =>
              /\ puts <= 1
              /\ puts = 1 =>
                    /\ args.input
                    /\ attempts > 0
                    /\ succeeded
                    /\ Count(calls, "gfx_flash_error") = 0
                    /\ (machine = "vg5000" /\ fs_ext = "k7") =>
                          CalledBefore(calls, "keybuf_put CLOAD", "keybuf_put input")
              /\ Count(calls, "gfx_flash_error") > 0 => puts = 0

C13_Witness ==
    /\ machine = "vg5000"
    /\ args = [file |-> TRUE, input |-> TRUE]
    /\ fs_ext = "k7"
    /\ frame_count = 121
    /\ CalledBefore(calls, "keybuf_put CLOAD", "keybuf_put input")
    /\ keybuf = Tail(CLOAD \o InputText)

\* The upper-case form of an ASCII character code.
Upper(c) == IF c \in 97..122 THEN c - 32 ELSE c

\* The key codes the emulator was sent as key_down, key_up or triangle key.
SentAs(what) == {keys[i][2] : i \in {k \in DOMAIN keys : keys[k][1] = what}}

\* C14: in the VG5000 front-end every key_down sent for a character event
\* or from the key buffer is at once followed by the key_up of the same key
\* code; a character is accepted only when 0x20 < c < 0x7F and is sent
\* upper-cased; a special key sends key_down only on a key-down event and
\* key_up only on a key-up event; END triggers the triangle key only on
\* key-down and sends no matrix key event; a frame sends at most one key
\* of the key buffer.
C14_KeyEvents ==
    /\ event.type \in {"CHAR", "none"} =>
          \A i \in DOMAIN keys :
             /\ keys[i][1] \in {"down", "up"}
             /\ keys[i][1] = "down" =>
                   (i < Len(keys) /\ keys[i + 1] = <<"up", keys[i][2]>>)
             /\ keys[i][1] = "up" =>
                   (i > 1 /\ keys[i - 1] = <<"down", keys[i][2]>>)
    /\ event.type = "CHAR" =>
          /\ keys # <<>> => (event.char_code > 32 /\ event.char_code < 127)
          /\ SentAs("down") \subseteq {Upper(event.char_code)}
    /\ event.type = "KEY_DOWN" => SentAs("up") = {}
    /\ event.type = "KEY_UP" => SentAs("down") = {} /\ SentAs("triangle") = {}
    /\ event.type \in {"KEY_DOWN", "KEY_UP"} => Len(keys) <= 1
    /\ event.key_code = "END" => SentAs("down") \cup SentAs("up") = {}
    /\ event.key_code # "END" => SentAs("triangle") = {}
    /\ event.type = "none" => Len(keys) <= 2
    /\ event.type \notin {"CHAR", "KEY_DOWN", "KEY_UP", "none"} => keys = <<>>

C14_Witness ==
    /\ event = [type |-> "CHAR", key_code |-> "none", char_code |-> 97]
    /\ keys = <<<<"down", 65>>, <<"up", 65>>>>
    /\ frame_count > 0
    /\ keybuf = Tail(InputText)

====
